---- MODULE Spec2Model ----
(***************************************************************************)
(* Model of src/main.py: the topic resolver (Prefs.index_topic), the       *)
(* line-driven ingestion parser (Prefs.from_text), the weight transform    *)
(* (ranks_to_weights) and the assignment solver (Prefs.solve).             *)
(*                                                                         *)
(* Similarity scores are kept in hundredths (1.0 is 100, 0.95 is 95); the  *)
(* score levels are chosen so that no difference of two levels is exactly  *)
(* 10, because the source computes the margin in binary floating point.    *)
(* Topic indices are 0-based as in the source; sequences are 1-based, so   *)
(* topic i is topics[i + 1].                                               *)
(***************************************************************************)
EXTENDS Integers, Sequences, FiniteSets, TLC

VARIABLES
    pc,                     \* position of the process
    similarity,             \* args.similarity (main)
    local_threshold,        \* the name jaro_winkler_threshold bound inside main()
    jaro_winkler_threshold, \* the module-level jaro_winkler_threshold
    jw,                     \* the scores jellyfish.jaro_winkler returns
    topics,                 \* the list object behind Prefs().topics
    users,                  \* the dict object behind Prefs().users, in insertion order
    state,                  \* from_text: parser state
    username,               \* from_text: current participant
    prefs,                  \* from_text: ranking of the current participant
    lines,                  \* from_text: the lines consumed by the current call
    topics0,                \* contents of the topic list when the current call began
    users0,                 \* contents of the users dict when the current call began
    ncalls,                 \* from_text calls made by the process
    nlines,                 \* lines consumed by the process
    err,                    \* the exception that ended the process step, or NoError
    call,                   \* the last index_topic call: token, threshold read, result, notice
    token,                  \* resolver runs: the argument s of index_topic
    students,               \* solve: the shuffled and padded rows
    graph,                  \* solve: the arcs added to the LinearSumAssignment
    mate,                   \* solve: RightMate of every row after Solve()
    sol                     \* solve: the returned assignment

vars == <<pc, similarity, local_threshold, jaro_winkler_threshold, jw, topics, users,
          state, username, prefs, lines, topics0, users0, ncalls, nlines, err, call,
          token, students, graph, mate, sol>>

----------------------------------------------------------------------------
(* Bounds of the model *)

MaxList == 3        \* resolver runs: longest topic list
MaxLines == 6       \* ingestion: lines consumed by one process
MaxCalls == 2       \* ingestion: from_text calls made by one process
MaxTopics == 2      \* solver runs: most topics in a store
MaxUsers == 2       \* solver runs: most participants in a store
MaxPrefs == 3       \* solver runs: most preferences in a store, over all rankings

(* Program constants, in hundredths *)

ExactScore == 100           \* score == 1.0
DefaultThreshold == 95      \* jaro_winkler_threshold = 0.95
Margin == 10                \* first[1] - second[1] < 0.1
MinSimilarity == 70         \* args.similarity >= 0.7
MaxSimilarity == 100        \* 1.0 >= args.similarity

None == -1                  \* Python's None where an index is expected
NoName == "None"            \* the name of a padding row: None

----------------------------------------------------------------------------
(* Strings *)

Strings == {"X", "Y", "Z", "Xq"}

\* The scores jaro_winkler gives to two different strings.
Levels == {60, 84, 95, 97}


\* The table used by ingestion runs: "Xq" is a typo of "X". jaro_winkler(s, s)
\* is 1.0 and a score of 1.0 needs identical strings.
BaseScores ==
    [a \in Strings |-> [b \in Strings |->
        IF a = b THEN ExactScore
        ELSE IF {a, b} = {"X", "Xq"} THEN 97
        ELSE 60]]

jaro_winkler(s, t) == jw[s][t]

----------------------------------------------------------------------------
(* Prefs.index_topic *)

\* line 153
IsExactMutant(score) == FALSE
IsExact(score) == score = ExactScore

\* lines 156-159: the new (first, second) after seeing topic i with this score
Track(first, second, i, score) ==
    IF first = <<>> \/ score > first[2] THEN <<<<i, score>>, first>>
    ELSE IF second = <<>> \/ score > second[2] THEN <<first, <<i, score>>>>
    ELSE <<first, second>>

\* lines 151-159: the loop from topic k on; exact is the index returned early, or None
RECURSIVE ScanTopics(_, _, _, _, _)
ScanTopics(tps, s, k, first, second) ==
    IF k > Len(tps) THEN [exact |-> None, first |-> first, second |-> second]
    ELSE LET i == k - 1
             score == jaro_winkler(s, tps[k])
         IN  IF IsExact(score)
             THEN [exact |-> i, first |-> first, second |-> second]
             ELSE LET t == Track(first, second, i, score)
                  IN  ScanTopics(tps, s, k + 1, t[1], t[2])

\* line 166
SingleAccepted(score) == score >= jaro_winkler_threshold

\* line 171
RejectedMutant(first, second) == first[2] < jaro_winkler_threshold
Rejected(first, second) ==
    first[2] - second[2] < Margin \/ first[2] < jaro_winkler_threshold

\* lines 148-176: the index returned (or None) and whether line 175 printed
index_topic(tps, s) ==
    LET r == ScanTopics(tps, s, 1, <<>>, <<>>)
    IN  IF r.exact # None THEN [topic |-> r.exact, notice |-> FALSE]
        ELSE IF r.first = <<>> THEN [topic |-> None, notice |-> FALSE]
        ELSE IF r.second = <<>>
             THEN IF SingleAccepted(r.first[2])
                  THEN [topic |-> r.first[1], notice |-> FALSE]
                  ELSE [topic |-> None, notice |-> FALSE]
        ELSE IF Rejected(r.first, r.second) THEN [topic |-> None, notice |-> FALSE]
        ELSE [topic |-> r.first[1], notice |-> TRUE]

NoCall == [made |-> FALSE, s |-> "", threshold |-> 0, topic |-> None, notice |-> FALSE]

\* the record of one call made with the module-level threshold
CallOf(tps, s) ==
    LET r == index_topic(tps, s)
    IN  [made |-> TRUE, s |-> s, threshold |-> jaro_winkler_threshold,
         topic |-> r.topic, notice |-> r.notice]

----------------------------------------------------------------------------
(* Prefs.from_text *)

\* The lines a text file yields: every line ends with its newline.
Lines == {"\n", "X\n", " X\n", "Y\n", "Xq\n"}

\* str.isspace
isspace(line) == line = "\n"

\* str.strip
strip(line) ==
    CASE line = "\n" -> ""
      [] line = "X\n" -> "X"
      [] line = " X\n" -> "X"
      [] line = "Y\n" -> "Y"
      [] line = "Xq\n" -> "Xq"

NoError == [kind |-> "none", line |-> 0, text |-> ""]

\* username in self.users
UsersHas(us, name) == \E k \in 1..Len(us) : us[k].name = name

\* self.users[name] = ranking: a dict keeps the position of a key it already has
UsersSet(us, name, ranking) ==
    IF UsersHas(us, name)
    THEN [k \in 1..Len(us) |->
            IF us[k].name = name THEN [name |-> name, prefs |-> ranking] ELSE us[k]]
    ELSE Append(us, [name |-> name, prefs |-> ranking])

\* lines 69-70: the iterator from_text loops over. takewhile() builds a lazy
\* iterator that is never consumed, so no line is taken from `lines`.
SkipLeading(ls) == ls

\* lines 101-108: what a resolved preference does to the current ranking
AppendPrefMutant(ranking, topic) == Append(ranking, topic + 1)
AppendPref(ranking, topic) == Append(ranking, topic)

\* line 87
AppendTopic(tps, line) == Append(tps, strip(line))

\* lines 94, 98, 105: the line number an error message carries
LineNoMutant(i) == i
LineNo(i) == i + 1

\* line 104
UnresolvedMutant(topic) == FALSE
Unresolved(topic) == topic = None

\* lines 76-82: the state a blank line leaves the parser in
AfterBlankMutant(st) == IF st = "TOPICS" THEN "USERNAME" ELSE "TOPICS"
AfterBlank(st) ==
    IF st = "TOPICS" THEN "USERNAME"
    ELSE IF st = "PREFS" THEN "USERNAME"
    ELSE st

\* lines 72-108: one iteration of the loop, on line number i (0-based)
LineStep(ps, i, line) ==
    IF isspace(line)
    THEN IF ps.state = "TOPICS" THEN [ps EXCEPT !.state = AfterBlank(ps.state)]
         ELSE IF ps.state = "PREFS"
              THEN [ps EXCEPT !.users = UsersSet(ps.users, ps.username, ps.prefs),
                              !.prefs = <<>>,
                              !.username = "",
                              !.state = AfterBlank(ps.state)]
         ELSE [ps EXCEPT !.state = AfterBlank(ps.state)]
    ELSE IF ps.state = "TOPICS"
         THEN [ps EXCEPT !.topics = AppendTopic(ps.topics, line)]
    ELSE IF ps.state = "USERNAME"
         THEN LET name == strip(line)
              IN  [ps EXCEPT !.state = "PREFS",
                             !.username = name,
                             !.err = IF UsersHas(ps.users, name)
                                     THEN [kind |-> "duplicate", line |-> LineNo(i), text |-> name]
                                     ELSE NoError]
    ELSE LET pref == strip(line)
             c == CallOf(ps.topics, pref)
         IN  IF Unresolved(c.topic)
             THEN [ps EXCEPT !.call = c,
                             !.err = [kind |-> "preference", line |-> LineNo(i), text |-> pref]]
             ELSE [ps EXCEPT !.call = c, !.prefs = AppendPref(ps.prefs, c.topic)]

\* lines 110-111
CommitMutant(ps) == ps
Commit(ps) ==
    IF ps.username # "" THEN [ps EXCEPT !.users = UsersSet(ps.users, ps.username, ps.prefs)]
    ELSE ps

\* lines 63-66: Prefs() binds the default containers of __init__, which are
\* created once; they are handed in with whatever they hold.
Begin(tps, us) ==
    [state |-> "TOPICS", username |-> "", prefs |-> <<>>,
     topics |-> tps, users |-> us, err |-> NoError, call |-> NoCall]

\* lines 72-108 over a whole input, stopping at the first exception
RECURSIVE Loop(_, _, _)
Loop(ps, ls, i) ==
    IF ls = <<>> \/ ps.err # NoError THEN ps
    ELSE Loop(LineStep(ps, i, Head(ls)), Tail(ls), i + 1)

\* lines 62-113: the store returned for an input, or the exception raised
FromText(tps, us, ls) ==
    LET ps == Loop(Begin(tps, us), SkipLeading(ls), 0)
    IN  IF ps.err # NoError
        THEN [raised |-> TRUE, err |-> ps.err, topics |-> <<>>, users |-> <<>>]
        ELSE [raised |-> FALSE, err |-> NoError,
              topics |-> Commit(ps).topics, users |-> Commit(ps).users]

\* the parser of the running call
Parser ==
    [state |-> state, username |-> username, prefs |-> prefs,
     topics |-> topics, users |-> users, err |-> err, call |-> call]

SolveIdle == /\ students = <<>> /\ graph = <<>> /\ mate = <<>> /\ sol = <<>>

Init ==
    /\ pc = "main"
    /\ similarity = DefaultThreshold
    /\ local_threshold = None
    /\ jaro_winkler_threshold = DefaultThreshold
    /\ jw = BaseScores
    /\ topics = <<>>
    /\ users = <<>>
    /\ state = "TOPICS"
    /\ username = ""
    /\ prefs = <<>>
    /\ lines = <<>>
    /\ topics0 = <<>>
    /\ users0 = <<>>
    /\ ncalls = 0
    /\ nlines = 0
    /\ err = NoError
    /\ call = NoCall
    /\ token = ""
    /\ SolveIdle

\* the values --similarity is given; 95 is the default
SimilarityValues == {60, 70, 95, 100}

\* line 255
SimilarityAccepted(s) == MaxSimilarity >= s /\ s >= MinSimilarity

\* lines 63-66, entered from a caller
EnterFromText ==
    /\ state' = "TOPICS"
    /\ username' = ""
    /\ prefs' = <<>>
    /\ lines' = <<>>
    /\ topics0' = topics
    /\ users0' = users
    /\ ncalls' = ncalls + 1
    /\ call' = NoCall
    /\ UNCHANGED <<topics, users>>

\* lines 254-257: parse_args, the range assertion, the assignment and the call
main(s) ==
    /\ pc = "main"
    /\ similarity' = s
    /\ UNCHANGED <<jaro_winkler_threshold, jw, nlines, token, students, graph, mate, sol>>
    /\ IF SimilarityAccepted(s)
       THEN /\ local_threshold' = s
            /\ pc' = "from_text"
            /\ err' = NoError
            /\ EnterFromText
       ELSE /\ pc' = "raised"
            /\ err' = [kind |-> "similarity", line |-> 0, text |-> ""]
            /\ UNCHANGED <<local_threshold, topics, users, state, username, prefs, lines,
                           topics0, users0, ncalls, call>>

\* lines 72-108: the loop takes the next line of the input
from_text_line(line) ==
    /\ pc = "from_text"
    /\ nlines < MaxLines
    /\ LET i == Len(lines)
           ps == LineStep(Parser, i, line)
       IN  /\ state' = ps.state
           /\ username' = ps.username
           /\ prefs' = ps.prefs
           /\ topics' = ps.topics
           /\ users' = ps.users
           /\ err' = ps.err
           /\ call' = ps.call
           /\ pc' = IF ps.err # NoError THEN "raised" ELSE "from_text"
    /\ lines' = Append(lines, line)
    /\ nlines' = nlines + 1
    /\ UNCHANGED <<similarity, local_threshold, jaro_winkler_threshold, jw, topics0, users0,
                   ncalls, token, students, graph, mate, sol>>

\* lines 110-113: the input is exhausted
from_text_return ==
    /\ pc = "from_text"
    /\ users' = Commit(Parser).users
    /\ pc' = "returned"
    /\ UNCHANGED <<similarity, local_threshold, jaro_winkler_threshold, jw, topics, state,
                   username, prefs, lines, topics0, users0, ncalls, nlines, err, call,
                   token, students, graph, mate, sol>>

\* lines 62-66: from_text is called once more in the same process
from_text_again ==
    /\ pc \in {"returned", "raised"}
    /\ ncalls >= 1
    /\ ncalls < MaxCalls
    /\ pc' = "from_text"
    /\ err' = NoError
    /\ EnterFromText
    /\ UNCHANGED <<similarity, local_threshold, jaro_winkler_threshold, jw, nlines,
                   token, students, graph, mate, sol>>

Next ==
    \/ \E s \in SimilarityValues : main(s)
    \/ \E line \in Lines : from_text_line(line)
    \/ from_text_return
    \/ from_text_again

Spec == Init /\ [][Next]_vars

----------------------------------------------------------------------------
(* Ingestion: what a well-formed input denotes *)

\* the position of the first blank line of ls, or Len(ls) + 1
RECURSIVE FirstBlank(_, _)
FirstBlank(ls, k) ==
    IF k > Len(ls) \/ isspace(ls[k]) THEN k ELSE FirstBlank(ls, k + 1)

\* the blocks of ls: the runs of lines between blank lines
RECURSIVE Blocks(_)
Blocks(ls) ==
    LET b == FirstBlank(ls, 1)
    IN  IF b > Len(ls) THEN <<ls>>
        ELSE <<SubSeq(ls, 1, b - 1)>> \o Blocks(SubSeq(ls, b + 1, Len(ls)))

\* the first index (0-based) of name in tps, or None
RECURSIVE IndexOf(_, _, _)
IndexOf(tps, name, k) ==
    IF k > Len(tps) THEN None
    ELSE IF tps[k] = name THEN k - 1
    ELSE IndexOf(tps, name, k + 1)

Trimmed(ls) == [k \in 1..Len(ls) |-> strip(ls[k])]

\* blocks with a last empty block (the input ended with a blank line) dropped
BlocksOf(ls) ==
    LET bs == Blocks(ls)
    IN  IF Len(bs) > 1 /\ bs[Len(bs)] = <<>> THEN SubSeq(bs, 1, Len(bs) - 1) ELSE bs

ExpectedTopics(ls) == Trimmed(BlocksOf(ls)[1])

ExpectedUsers(ls) ==
    LET bs == BlocksOf(ls)
    IN  [k \in 1..(Len(bs) - 1) |->
            [name |-> strip(bs[k + 1][1]),
             prefs |-> [j \in 1..(Len(bs[k + 1]) - 1) |->
                          IndexOf(ExpectedTopics(ls), strip(bs[k + 1][j + 1]), 1)]]]

\* topic lines, a blank line, then blocks of a name and preference lines that
\* each equal a topic name, separated by single blank lines, with distinct names
WellFormed(ls) ==
    LET bs == BlocksOf(ls)
    IN  /\ Len(bs) >= 2
        /\ \A k \in 1..Len(bs) : bs[k] # <<>>
        /\ \A k, m \in 2..Len(bs) : k # m => strip(bs[k][1]) # strip(bs[m][1])
        /\ \A k \in 2..Len(bs) : \A j \in 2..Len(bs[k]) :
              IndexOf(ExpectedTopics(ls), strip(bs[k][j]), 1) # None

\* ls without its leading blank lines
RECURSIVE WithoutLeadingBlanks(_)
WithoutLeadingBlanks(ls) ==
    IF ls # <<>> /\ isspace(Head(ls)) THEN WithoutLeadingBlanks(Tail(ls)) ELSE ls

\* every index occurs at most once in the ranking
Unique(ranking) ==
    \A j, k \in 1..Len(ranking) : j # k => ranking[j] # ranking[k]

----------------------------------------------------------------------------
(* Claims on ingestion *)

\* C7: a well-formed input parses to exactly its topic lines, in input order,
\* and to each participant's sequence of topic indices, in input order.
C7_RoundTrip ==
    (pc = "returned" /\ WellFormed(lines))
        => (topics = ExpectedTopics(lines) /\ users = ExpectedUsers(lines))

\* C7, restricted to the first from_text call of a process, where the
\* containers of Prefs() are still empty: there the round trip holds.
C7_RoundTripFirstCall ==
    (pc = "returned" /\ ncalls = 1 /\ WellFormed(lines))
        => (topics = ExpectedTopics(lines) /\ users = ExpectedUsers(lines))

\* C8: leading blank lines are skipped: an input that parses gives the same
\* store as the input without its leading blank lines.
C8_LeadingBlanksSkipped ==
    (pc = "returned" /\ lines # <<>> /\ isspace(lines[1]))
        => LET r == FromText(topics0, users0, WithoutLeadingBlanks(lines))
           IN  ~r.raised /\ r.topics = topics /\ r.users = users

\* C9: every ranking committed to the store holds each topic index at most once.
C9_RankingsUnique ==
    \A k \in 1..Len(users) : Unique(users[k].prefs)

\* C10: every index_topic call made by from_text compares against the
\* configured similarity value.
C10_ThresholdIsSimilarity ==
    call.made => call.threshold = similarity

----------------------------------------------------------------------------
(* Resolver runs: index_topic applied to a topic list, a token and the scores
   jaro_winkler gives the token *)

\* all sequences over S of length at most n
RECURSIVE SeqsUpTo(_, _)
SeqsUpTo(S, n) ==
    IF n = 0 THEN {<<>>}
    ELSE LET shorter == SeqsUpTo(S, n - 1)
         IN  shorter \cup {Append(q, x) : q \in {r \in shorter : Len(r) = n - 1}, x \in S}

\* the values the module-level threshold is given in resolver runs
Thresholds == {s \in SimilarityValues : SimilarityAccepted(s)}

InitResolve ==
    /\ pc = "resolve"
    /\ similarity = DefaultThreshold
    /\ local_threshold = None
    /\ jaro_winkler_threshold \in Thresholds
    /\ token \in Strings
    /\ \E row \in [Strings -> Levels] :
          jw = [a \in Strings |-> [b \in Strings |->
                  IF a = b THEN ExactScore
                  ELSE IF a = token THEN row[b]
                  ELSE BaseScores[a][b]]]
    /\ topics \in SeqsUpTo(Strings, MaxList)
    /\ users = <<>>
    /\ state = "PREFS"
    /\ username = ""
    /\ prefs = <<>>
    /\ lines = <<>>
    /\ topics0 = topics
    /\ users0 = <<>>
    /\ ncalls = 0
    /\ nlines = 0
    /\ err = NoError
    /\ call = NoCall
    /\ SolveIdle

\* lines 148-176: one call self.index_topic(token)
resolve ==
    /\ pc = "resolve"
    /\ call' = CallOf(topics, token)
    /\ pc' = "resolved"
    /\ UNCHANGED <<similarity, local_threshold, jaro_winkler_threshold, jw, topics, users,
                   state, username, prefs, lines, topics0, users0, ncalls, nlines, err,
                   token, students, graph, mate, sol>>

NextResolve == resolve

SpecResolve == InitResolve /\ [][NextResolve]_vars

\* the score of the token against every topic, in list order
Scores == [k \in 1..Len(topics) |-> jw[token][topics[k]]]

ExactAt == {k \in 1..Len(topics) : Scores[k] = ExactScore}

Least(S) == CHOOSE k \in S : \A m \in S : k <= m

\* a position of the highest score
BestAt == CHOOSE k \in 1..Len(topics) : \A m \in 1..Len(topics) : Scores[k] >= Scores[m]

\* the highest score among the other positions
SecondBest ==
    LET rest == {Scores[m] : m \in (1..Len(topics)) \ {BestAt}}
    IN  CHOOSE v \in rest : \A w \in rest : v >= w

\* C5: when some topic scores exactly 1.0, the resolver returns the first such
\* topic in list order, whatever the threshold and the other scores are.
C5_ExactMatchFirst ==
    (pc = "resolved" /\ ExactAt # {}) => call.topic = Least(ExactAt) - 1

\* a topic within 0.1 of 1.0 comes before the exact match in the list
C5_Witness ==
    /\ pc = "resolved"
    /\ ExactAt # {}
    /\ Least(ExactAt) > 1
    /\ \E k \in 1..Len(topics) : Scores[k] = 97 /\ k < Least(ExactAt)
    /\ \E k \in ExactAt : k > Least(ExactAt)
    /\ call.topic = Least(ExactAt) - 1

\* C6: with no exact match, an empty list is unresolved; a single topic is
\* returned iff its score reaches the threshold; of two or more topics the best
\* is returned iff it reaches the threshold and leads the second best by 0.1.
C6_FuzzyPolicy ==
    (pc = "resolved" /\ ExactAt = {}) =>
        call.topic =
            IF Len(topics) = 0 THEN None
            ELSE IF Len(topics) = 1
                 THEN (IF Scores[1] >= jaro_winkler_threshold THEN 0 ELSE None)
            ELSE IF /\ Scores[BestAt] >= jaro_winkler_threshold
                    /\ Scores[BestAt] - SecondBest >= Margin
                 THEN BestAt - 1
            ELSE None

\* the best of three topics is accepted although it is not the first in the list
C6_Witness ==
    /\ pc = "resolved"
    /\ ExactAt = {}
    /\ Len(topics) = 3
    /\ call.topic = 2
    /\ Scores[1] < Scores[2]

\* two topics tie for the best score, above the threshold: unresolved
C6_WitnessTie ==
    /\ pc = "resolved"
    /\ ExactAt = {}
    /\ Len(topics) >= 2
    /\ Scores[BestAt] = SecondBest
    /\ Scores[BestAt] >= jaro_winkler_threshold
    /\ call.topic = None

----------------------------------------------------------------------------
(* ranks_to_weights and Prefs.solve *)

\* the last position of topic t in the ranking
LastRank(ranks, t) ==
    CHOOSE k \in 1..Len(ranks) :
        ranks[k] = t /\ \A m \in 1..Len(ranks) : ranks[m] = t => m <= k

\* lines 22-25: a dict comprehension keeps the last value written for a key
ranks_to_weightsMutant(num_topics, ranks) ==
    [t \in {ranks[k] : k \in 1..Len(ranks)} |-> num_topics - LastRank(ranks, t)]
ranks_to_weights(num_topics, ranks) ==
    [t \in {ranks[k] : k \in 1..Len(ranks)} |-> num_topics - (LastRank(ranks, t) - 1)]

\* weights.get(col, 0)
Get(weights, col) == IF col \in DOMAIN weights THEN weights[col] ELSE 0

\* line 222
ArcCostMutant(weights, col) == Get(weights, col)
ArcCost(weights, col) == 0 - Get(weights, col)

\* the bijections of 1..n
Perms(n) == {p \in [1..n -> 1..n] : \A j, k \in 1..n : j # k => p[j] # p[k]}

Max(a, b) == IF a >= b THEN a ELSE b

\* line 210
Ghost == [name |-> NoName, weights |-> [t \in {} |-> 0]]

\* lines 208-210
Padded(sts, size) ==
    sts \o [k \in 1..Max(0, size - Len(sts)) |-> Ghost]

\* lines 199-210: the rows, shuffled in the order perm and padded
StudentsOf(perm) ==
    LET size == Len(topics)
        listed == [k \in 1..Len(users) |->
                     [name |-> users[k].name,
                      weights |-> ranks_to_weights(size, users[k].prefs)]]
        shuffled == [k \in 1..Len(users) |-> listed[perm[k]]]
    IN  Padded(shuffled, size)

\* line 213
SquareMutant(sts, size) == TRUE
Square(sts, size) == Len(sts) = size

\* lines 218-223: the cost of the arc from every row to every column
GraphOf(sts, size) ==
    [row \in 1..Len(sts) |-> [c \in 1..size |-> ArcCost(sts[row].weights, c - 1)]]

RECURSIVE SumTo(_, _)
SumTo(f, n) == IF n = 0 THEN 0 ELSE f[n] + SumTo(f, n - 1)

\* the cost of the perfect matching in which row r has column p[r] - 1
CostOf(g, p) == SumTo([r \in 1..Len(g) |-> g[r][p[r]]], Len(g))

\* line 225: the matchings a Solve() that reports OPTIMAL may hold, as RightMate
\* of every row: the perfect matchings of least cost
OptimalMates(g) ==
    LET n == Len(g)
        best == {p \in Perms(n) : \A q \in Perms(n) : CostOf(g, p) <= CostOf(g, q)}
    IN  {[r \in 1..n |-> p[r] - 1] : p \in best}

\* the positions of the rows of real participants, in row order
RECURSIVE RealRows(_, _)
RealRows(sts, k) ==
    IF k > Len(sts) THEN <<>>
    ELSE IF sts[k].name # NoName THEN <<k>> \o RealRows(sts, k + 1)
    ELSE RealRows(sts, k + 1)

\* line 228: the dict in insertion order
ResultAllRows(sts, mt) ==
    [k \in 1..Len(sts) |-> [name |-> sts[k].name, topic |-> mt[k]]]
ResultInputOrder(sts, mt) ==
    [k \in 1..Len(users) |-> [name |-> users[k].name, topic |-> mt[k]]]
Result(sts, mt) ==
    LET rows == RealRows(sts, 1)
    IN  [k \in 1..Len(rows) |-> [name |-> sts[rows[k]].name, topic |-> mt[rows[k]]]]

\* the names the rankings are listed under
UserNames == <<"Y", "X", "Xq", "Z">>
TopicNames == <<"X", "Y", "Z", "Xq">>

\* the rankings of m participants over n topics that hold at most budget
\* preferences together
RECURSIVE RankingsOf(_, _, _)
RankingsOf(m, budget, n) ==
    IF m = 0 THEN {<<>>}
    ELSE UNION { {<<r>> \o rest : rest \in RankingsOf(m - 1, budget - Len(r), n)} :
                    r \in SeqsUpTo(0..(n - 1), budget) }

\* Solver runs start from a store: rankings are sequences of valid topic
\* indices; from_text appends a resolved index without looking for it in the
\* ranking, so an index may repeat.
InitSolve ==
    /\ pc = "store"
    /\ similarity = DefaultThreshold
    /\ local_threshold = None
    /\ jaro_winkler_threshold = DefaultThreshold
    /\ jw = BaseScores
    /\ \E n \in 0..MaxTopics : topics = SubSeq(TopicNames, 1, n)
    /\ \E m \in 0..MaxUsers :
          \E rs \in RankingsOf(m, MaxPrefs, Len(topics)) :
              users = [k \in 1..m |-> [name |-> UserNames[k], prefs |-> rs[k]]]
    /\ state = "USERNAME"
    /\ username = ""
    /\ prefs = <<>>
    /\ lines = <<>>
    /\ topics0 = <<>>
    /\ users0 = <<>>
    /\ ncalls = 0
    /\ nlines = 0
    /\ err = NoError
    /\ call = NoCall
    /\ token = ""
    /\ SolveIdle

ParserIdle ==
    UNCHANGED <<similarity, local_threshold, jaro_winkler_threshold, jw, state, username,
                prefs, lines, topics0, users0, ncalls, nlines, call, token>>

\* lines 200-204: the shuffle permutes the list built at line 200, a copy; the
\* dict of the store keeps its order
StoreAfterShuffleMutant(us, perm) == [k \in 1..Len(us) |-> us[perm[k]]]
StoreAfterShuffle(us, perm) == us

\* lines 199-213: weights, shuffle, padding and the assertion
solve_begin(perm) ==
    /\ pc = "store"
    /\ LET sts == StudentsOf(perm)
       IN  IF Square(sts, Len(topics))
           THEN /\ students' = sts
                /\ pc' = "build"
                /\ err' = NoError
           ELSE /\ students' = <<>>
                /\ pc' = "raised"
                /\ err' = [kind |-> "infeasible", line |-> 0, text |-> ""]
    /\ users' = StoreAfterShuffle(users, perm)
    /\ UNCHANGED <<topics, graph, mate, sol>>
    /\ ParserIdle

\* lines 218-223
solve_build ==
    /\ pc = "build"
    /\ graph' = GraphOf(students, Len(topics))
    /\ pc' = "Solve"
    /\ UNCHANGED <<topics, users, students, mate, sol, err>>
    /\ ParserIdle

\* lines 225-226: a square, complete graph has a perfect matching, so Solve()
\* reports OPTIMAL; any other graph makes the assertion fail
solve_Solve ==
    /\ pc = "Solve"
    /\ IF \A row \in 1..Len(graph) : Len(graph[row]) = Len(graph)
       THEN /\ \E mt \in OptimalMates(graph) : mate' = mt
            /\ pc' = "RightMate"
            /\ err' = NoError
       ELSE /\ mate' = <<>>
            /\ pc' = "raised"
            /\ err' = [kind |-> "not optimal", line |-> 0, text |-> ""]
    /\ UNCHANGED <<topics, users, students, graph, sol>>
    /\ ParserIdle

\* lines 228-229
solve_return ==
    /\ pc = "RightMate"
    /\ sol' = Result(students, mate)
    /\ pc' = "solved"
    /\ UNCHANGED <<topics, users, students, graph, mate, err>>
    /\ ParserIdle

NextSolve ==
    \/ \E perm \in Perms(Len(users)) : solve_begin(perm)
    \/ solve_build
    \/ solve_Solve
    \/ solve_return

SpecSolve == InitSolve /\ [][NextSolve]_vars

----------------------------------------------------------------------------
(* Claims on solve *)

\* the position in the store of the participant of this name
RowOf(name) == (CHOOSE k \in 1..Len(users) : users[k].name = name)

\* the weight the ranking of participant k gives to topic t, 0 if unlisted
WeightOf(k, t) == Get(ranks_to_weights(Len(topics), users[k].prefs), t)

\* the total weight of an assignment, a sequence of (name, topic)
TotalWeight(a) ==
    SumTo([j \in 1..Len(a) |-> WeightOf(RowOf(a[j].name), a[j].topic)], Len(a))

\* the one-to-one assignments of the participants to topics
Injections ==
    {f \in [1..Len(users) -> 0..(Len(topics) - 1)] :
        \A j, k \in 1..Len(users) : j # k => f[j] # f[k]}

TotalOf(f) == SumTo([k \in 1..Len(users) |-> WeightOf(k, f[k])], Len(users))

\* C1: with no more participants than topics, the assignment returned has the
\* greatest total weight of all one-to-one assignments of participants to topics.
C1_Optimal ==
    (pc = "solved" /\ Len(users) <= Len(topics)) =>
        /\ \A f \in Injections : TotalOf(f) <= TotalWeight(sol)
        /\ \E f \in Injections : TotalOf(f) = TotalWeight(sol)

\* two participants rank the same topic first and the optimum gives the first
\* choice to only one of them
C1_Witness ==
    /\ pc = "solved"
    /\ Len(users) = 2
    /\ Len(topics) = 2
    /\ users[1].prefs # <<>> /\ users[2].prefs # <<>>
    /\ users[1].prefs[1] = users[2].prefs[1]
    /\ TotalWeight(sol) = 3

\* C2: the result has exactly one entry per participant, every value is a
\* topic index, no topic is assigned twice and no padding row appears.
C2_ResultShape ==
    (pc = "solved" /\ Len(users) <= Len(topics)) =>
        /\ Len(sol) = Len(users)
        /\ \A k \in 1..Len(users) : \E j \in 1..Len(sol) : sol[j].name = users[k].name
        /\ \A j \in 1..Len(sol) : sol[j].name # NoName
        /\ \A j \in 1..Len(sol) : sol[j].topic \in 0..(Len(topics) - 1)
        /\ \A j, k \in 1..Len(sol) : j # k => sol[j].topic # sol[k].topic

\* fewer participants than topics, one of them with an empty ranking
C2_Witness ==
    /\ pc = "solved"
    /\ Len(users) < Len(topics)
    /\ \E k \in 1..Len(users) : users[k].prefs = <<>>
    /\ \E row \in 1..Len(students) : students[row].name = NoName
    /\ Len(sol) = Len(users)

\* C3: with more participants than topics, solve fails with the infeasibility
\* error before any arc is added or any matching is attempted, and returns nothing.
C3_Infeasible ==
    (Len(users) > Len(topics)) =>
        /\ pc \in {"store", "raised"}
        /\ pc = "raised" => err.kind = "infeasible"
        /\ graph = <<>>
        /\ mate = <<>>
        /\ sol = <<>>

C3_Witness ==
    /\ pc = "raised"
    /\ err.kind = "infeasible"
    /\ Len(users) > Len(topics)
    /\ Len(topics) > 0

\* the assignments solve can return when the shuffle produces the order perm
ResultsFor(perm) ==
    LET sts == StudentsOf(perm)
    IN  IF Square(sts, Len(topics))
        THEN {Result(sts, mt) : mt \in OptimalMates(GraphOf(sts, Len(topics)))}
        ELSE {}

\* C4: runs of solve on one store that differ in the shuffle return
\* assignments of the same total weight.
C4_ShuffleSameTotal ==
    (pc = "solved") =>
        \A perm \in Perms(Len(users)) : \A a \in ResultsFor(perm) :
            TotalWeight(a) = TotalWeight(sol)

\* another order of the participants leads to a different assignment
C4_Witness ==
    /\ pc = "solved"
    /\ Len(users) = 2
    /\ \E perm \in Perms(Len(users)) : \E a \in ResultsFor(perm) :
          /\ a # sol
          /\ \E j \in 1..Len(a) : \E k \in 1..Len(sol) :
                a[j].name = sol[k].name /\ a[j].topic # sol[k].topic

----------------------------------------------------------------------------
(* Claims on ingestion errors *)

\* the line a step of the loop has just consumed
LineRead == lines'[Len(lines')]

\* a step of the loop of the running call
ReadsLine == pc = "from_text" /\ ncalls' = ncalls /\ Len(lines') = Len(lines) + 1

\* the names committed by the blocks of the running call
BlockNames == {users[k].name : k \in (Len(users0) + 1)..Len(users)}

\* C11: a name line that equals, after trimming, the name of a participant an
\* earlier block committed raises the duplicate-participant error with the
\* 1-based number of that line; no further line is processed and no store is
\* returned.
C11_DuplicateName ==
    [][/\ (ReadsLine /\ state = "USERNAME" /\ ~isspace(LineRead)
               /\ strip(LineRead) \in BlockNames)
           => /\ pc' = "raised"
              /\ err' = [kind |-> "duplicate", line |-> Len(lines'),
                         text |-> strip(LineRead)]
              /\ users' = users
              /\ topics' = topics
       /\ (pc = "raised" /\ err.kind = "duplicate")
           => (pc' # "returned" /\ (lines' = lines \/ ncalls' = ncalls + 1))]_vars

\* the second block repeats the name of the first with other whitespace around it
C11_Witness ==
    /\ pc = "raised"
    /\ err.kind = "duplicate"
    /\ err.line = Len(lines)
    /\ err.line > 3
    /\ err.text \in BlockNames
    /\ \E k \in 1..(Len(lines) - 1) :
          lines[k] # lines[Len(lines)] /\ strip(lines[k]) = err.text

\* C12: a non-blank line read in state PREFS that the resolver leaves unresolved
\* raises the unresolvable-preference error with the 1-based number and the
\* trimmed text of that line; no further line is processed and no store is
\* returned.
C12_UnresolvedPreference ==
    [][/\ (ReadsLine /\ state = "PREFS" /\ ~isspace(LineRead)
               /\ index_topic(topics, strip(LineRead)).topic = None)
           => /\ pc' = "raised"
              /\ err' = [kind |-> "preference", line |-> Len(lines'),
                         text |-> strip(LineRead)]
              /\ prefs' = prefs
              /\ users' = users
              /\ topics' = topics
       /\ (pc = "raised" /\ err.kind = "preference")
           => (pc' # "returned" /\ (lines' = lines \/ ncalls' = ncalls + 1))]_vars

\* a typo that two equal topics score the same is left unresolved, after a
\* preference that was resolved
C12_Witness ==
    /\ pc = "raised"
    /\ err.kind = "preference"
    /\ err.line = Len(lines)
    /\ err.text = "Xq"
    /\ prefs # <<>>
    /\ call.made /\ call.topic = None

----------------------------------------------------------------------------
(* Claims on the notice, the end of input and the weights *)

\* C13: the resolver prints the "corrected preference" notice exactly when it
\* accepts a topic whose score is not 1.0, from a single-topic list as well as
\* among two or more topics.
C13_NoticeOnCorrection ==
    (pc = "resolved") =>
        (call.notice <=> (call.topic # None /\ Scores[call.topic + 1] # ExactScore))

\* C14: when the input ends while a participant block is open, the participant
\* is committed with the ranking read so far, and the store is the one the
\* same input followed by a blank line gives.
C14_OpenBlockCommitted ==
    (pc = "returned" /\ state = "PREFS") =>
        /\ \E k \in 1..Len(users) : users[k] = [name |-> username, prefs |-> prefs]
        /\ LET r == FromText(topics0, users0, Append(lines, "\n"))
           IN  ~r.raised /\ r.topics = topics /\ r.users = users

\* the input ends right after a name line, and after a preference line
C14_Witness ==
    /\ pc = "returned"
    /\ state = "PREFS"
    /\ Len(users) = 2
    /\ users[1].prefs # <<>>
    /\ users[2] = [name |-> username, prefs |-> <<>>]
    /\ ~isspace(lines[Len(lines)])

\* the position of topic t in a ranking without repeats
RankOf(ranks, t) == CHOOSE k \in 1..Len(ranks) : ranks[k] = t

\* the rows of solve that come from a ranking of distinct indices no longer
\* than the topic list
DistinctRows ==
    {row \in 1..Len(students) :
        /\ students[row].name # NoName
        /\ Unique(users[RowOf(students[row].name)].prefs)
        /\ Len(users[RowOf(students[row].name)].prefs) <= Len(topics)}

\* C15: ranks_to_weights gives the topic at 0-based rank r the weight
\* topic_count - r and has no other key, so the weights fall strictly with the
\* rank and every listed topic weighs at least 1.
C15_Weights ==
    \A row \in DistinctRows :
        LET ranks == users[RowOf(students[row].name)].prefs
            w == students[row].weights
        IN  /\ DOMAIN w = {ranks[k] : k \in 1..Len(ranks)}
            /\ \A k \in 1..Len(ranks) : w[ranks[k]] = Len(topics) - (k - 1)
            /\ \A k \in 1..Len(ranks) : w[ranks[k]] >= 1
            /\ \A j, k \in 1..Len(ranks) : j < k => w[ranks[j]] > w[ranks[k]]

\* a participant ranks every one of two or more topics
C15_Witness ==
    /\ pc = "build"
    /\ \E row \in DistinctRows :
          /\ Len(users[RowOf(students[row].name)].prefs) = Len(topics)
          /\ Len(topics) >= 2
          /\ users[RowOf(students[row].name)].prefs[1] = 1

----------------------------------------------------------------------------
(* Claims on the store and the parser states *)

\* C16: a store returned by from_text holds only the topics and participants
\* of its own input, whatever earlier from_text calls of the process did.
C16_OwnInputOnly ==
    (pc = "returned") =>
        LET r == FromText(<<>>, <<>>, lines)
        IN  ~r.raised /\ topics = r.topics /\ users = r.users

\* C17: the parser starts in TOPICS; its state changes only from TOPICS to
\* USERNAME on a blank line, from USERNAME to PREFS on a non-blank line and from
\* PREFS to USERNAME on a blank line; after TOPICS no line changes the topic list.
C17_ParserStates ==
    [][/\ (ncalls' # ncalls) => state' = "TOPICS"
       /\ (ncalls' = ncalls /\ state' # state) =>
             /\ ReadsLine
             /\ \/ state = "TOPICS" /\ state' = "USERNAME" /\ isspace(LineRead)
                \/ state = "USERNAME" /\ state' = "PREFS" /\ ~isspace(LineRead)
                \/ state = "PREFS" /\ state' = "USERNAME" /\ isspace(LineRead)
       /\ (ncalls' = ncalls /\ state # "TOPICS") =>
             (state' # "TOPICS" /\ topics' = topics)]_vars

\* a second block is opened after the first was closed
C17_Witness ==
    /\ pc = "from_text"
    /\ state = "PREFS"
    /\ Len(users) = 1
    /\ Len(users0) = 0
    /\ Len(topics) = 1
    /\ username # ""
    /\ isspace(lines[Len(lines) - 1])

\* C18: every topic index of a committed ranking or of the open ranking is an
\* index into the topic list, and the store has one ranking per name at most.
C18_StoreInvariant ==
    /\ \A k \in 1..Len(users) : \A j \in 1..Len(users[k].prefs) :
          users[k].prefs[j] \in 0..(Len(topics) - 1)
    /\ \A j \in 1..Len(prefs) : prefs[j] \in 0..(Len(topics) - 1)
    /\ \A j, k \in 1..Len(users) : j # k => users[j].name # users[k].name

\* a participant with a ranking is committed and the next block is open
C18_Witness ==
    /\ pc = "from_text"
    /\ state = "PREFS"
    /\ Len(users) = 1
    /\ users[1].prefs # <<>>
    /\ username # users[1].name

\* C19: for every store from_text returns, every weight solve derives is a
\* non-negative integer: no listed topic costs more than an unlisted one.
C19_WeightsNonNegative ==
    (pc = "returned") =>
        \A k \in 1..Len(users) :
            LET w == ranks_to_weights(Len(topics), users[k].prefs)
            IN  \A t \in DOMAIN w : w[t] >= 0

\* C20: solve leaves the store as it was: the topic list, the participants,
\* their order and their rankings.
C20_StoreUnchanged ==
    [][topics' = topics /\ users' = users]_vars

\* solve returned after shuffling the rows into another order than the store's
C20_Witness ==
    /\ pc = "solved"
    /\ Len(users) = 2
    /\ students[1].name = users[2].name
    /\ Len(sol) = 2
    /\ sol[1].name = users[2].name

====
